---- MODULE Spec2Model ----
(***************************************************************************)
(* Model of the groceries backend (src/backend/main.py): the in-memory     *)
(* Db, its JSON snapshot at DB_PATH, the two Meilisearch indexes, and the  *)
(* request handlers.  Every handler is `async def` but contains no await   *)
(* on an external call (the Meilisearch client and the file write are      *)
(* blocking calls), so each handler runs to completion, or to the          *)
(* exception that aborts it, as one step.                                  *)
(*                                                                         *)
(* Item names are sequences of one-character strings.                      *)
(***************************************************************************)
EXTENDS Integers, Sequences, FiniteSets, TLC

VARIABLES
    db,         \* the module-level `db` dict (main.py:77-78)
    disk,       \* the file at DB_PATH: <<>> when absent, <<json>> when present
    meili,      \* the Meilisearch server: index uid -> set of documents
    up,         \* TRUE once the module body has run (the process serves requests)
    last,       \* the most recent request and whether it returned
    prevAdd,    \* <<[category, item_name]>> if the request before `last` was an
                \* add that returned; <<>> otherwise
    response,   \* what the most recent request returned
    nreq,       \* number of requests received so far
    allOk,      \* no request so far was aborted by an exception
    deleted,    \* <<category, name>> pairs deleted-with-reindex and not added since
    addedAt     \* as long as every request returned: <<category, name>> -> the
                \* rank, among the adds, of the latest add of the name to the
                \* category

vars == <<db, disk, meili, up, last, prevAdd, response, nreq, allOk, deleted, addedAt>>

\* ---------------------------------------------------------------- bounds
\* Number of requests a behaviour may contain.
MaxRequests == 3

\* ------------------------------------------------------------ characters
\* The ASCII characters item names are written in here: the space, "%",
\* the digits and the letters, with their code points.
Digits == <<"0", "1", "2", "3", "4", "5", "6", "7", "8", "9">>
UpperCase ==
    <<"A", "B", "C", "D", "E", "F", "G", "H", "I", "J", "K", "L", "M",
      "N", "O", "P", "Q", "R", "S", "T", "U", "V", "W", "X", "Y", "Z">>
LowerCase ==
    <<"a", "b", "c", "d", "e", "f", "g", "h", "i", "j", "k", "l", "m",
      "n", "o", "p", "q", "r", "s", "t", "u", "v", "w", "x", "y", "z">>

IndexOf(ch, chars) == CHOOSE i \in 1..Len(chars) : chars[i] = ch
Occurs(ch, chars) == \E i \in 1..Len(chars) : chars[i] = ch

\* ord(ch); undefined outside the characters above.
ord(ch) ==
    CASE ch = " " -> 32
      [] ch = "%" -> 37
      [] Occurs(ch, Digits) -> 47 + IndexOf(ch, Digits)
      [] Occurs(ch, UpperCase) -> 64 + IndexOf(ch, UpperCase)
      [] Occurs(ch, LowerCase) -> 96 + IndexOf(ch, LowerCase)

\* chr(n); undefined outside the characters above.
chr(n) ==
    CASE n = 32 -> " "
      [] n = 37 -> "%"
      [] n >= 48 /\ n <= 57 -> Digits[n - 47]
      [] n >= 65 /\ n <= 90 -> UpperCase[n - 64]
      [] n >= 97 /\ n <= 122 -> LowerCase[n - 96]

IsUpper(ch) == ord(ch) >= 65 /\ ord(ch) <= 90
IsLower(ch) == ord(ch) >= 97 /\ ord(ch) <= 122

\* str.upper() / str.lower() on one ASCII character.
upper(ch) == IF IsLower(ch) THEN chr(ord(ch) - 32) ELSE ch
lower(ch) == IF IsUpper(ch) THEN chr(ord(ch) + 32) ELSE ch

IsHexDigit(ch) ==
    \/ ord(ch) >= 48 /\ ord(ch) <= 57
    \/ ord(ch) >= 65 /\ ord(ch) <= 70
    \/ ord(ch) >= 97 /\ ord(ch) <= 102

HexVal(ch) ==
    IF ord(ch) <= 57 THEN ord(ch) - 48
    ELSE IF ord(ch) <= 70 THEN ord(ch) - 55
    ELSE ord(ch) - 87

\* urllib.parse.unquote: every %XX with two hex digits becomes the character
\* with that code; any other "%" is kept.  Decoded output is not rescanned.
\* Defined where chr is.
RECURSIVE unquote(_)
unquote(s) ==
    IF s = <<>> THEN <<>>
    ELSE IF Len(s) >= 3 /\ s[1] = "%" /\ IsHexDigit(s[2]) /\ IsHexDigit(s[3])
         THEN <<chr(16 * HexVal(s[2]) + HexVal(s[3]))>> \o unquote(SubSeq(s, 4, Len(s)))
         ELSE <<s[1]>> \o unquote(Tail(s))

\* str.capitalize(): first character upper-cased, the rest lower-cased.
\* No whitespace is stripped.
capitalize(s) ==
    [i \in 1..Len(s) |-> IF i = 1 THEN upper(s[i]) ELSE lower(s[i])]

\* ----------------------------------------------------------------- names
Milk       == <<"M", "i", "l", "k">>
Mi         == <<"M", "i">>
milk       == <<"m", "i", "l", "k">>
SpaceMilk  == <<" ", "m", "i", "l", "k">>
SpaceUMilk == <<" ", "M", "i", "l", "k">>
PctMilk    == <<"%", "4", "D", "i", "l", "k">>
Mtue       == <<"M", "t", "u", "e">>

\* The item_name path parameters the handlers are called with.
RawNames == {milk, SpaceMilk, SpaceUMilk, PctMilk, Mtue}

\* The search_input path parameters get_search is called with.
Queries == {Mi}

Categories == {"Groceries", "Alcohol"}

\* int(hashlib.md5(string.encode("utf-8")).hexdigest()[:5], 16), tabulated
\* for the strings that reach it from RawNames.  The values are the real
\* digests; "Milk" and "Mtue" share their first five hex digits (e89b2).
get_id_from_name(string) ==
    CASE string = Milk      -> 952754
      [] string = Mtue      -> 952754
      [] string = milk      -> 969691
      [] string = SpaceMilk -> 422566
      [] string = SpaceUMilk -> 205897

\* ----------------------------------------------------------------- lists
\* x in list
In(x, list) == \E i \in 1..Len(list) : list[i] = x

\* list.remove(x) of a present x: drops the first occurrence.
ListRemove(list, x) ==
    LET i == CHOOSE j \in 1..Len(list) :
                 list[j] = x /\ \A k \in 1..(j - 1) : list[k] # x
    IN  SubSeq(list, 1, i - 1) \o SubSeq(list, i + 1, Len(list))

\* list.insert(0, x)
InsertFront(list, x) == <<x>> \o list

RECURSIVE Filter(_, _)
\* [item for item in list if item.get("name") != name]
Filter(list, name) ==
    IF list = <<>> THEN <<>>
    ELSE IF list[1].name # name THEN <<list[1]>> \o Filter(Tail(list), name)
         ELSE Filter(Tail(list), name)

Count(x, list) == Cardinality({i \in 1..Len(list) : list[i] = x})

\* -------------------------------------------------------------- database
\* The literal of init_db.
EmptyDb ==
    [active |-> [Groceries |-> <<>>, Alcohol |-> <<>>],
     Groceries |-> <<>>, Alcohol |-> <<>>]

\* json.dump: the JSON document written for a Db.  A JSON value is a pair
\* <<kind, payload>>; the payload of an object is its members in key order.
JString(s) == <<"string", s>>
JNumber(n) == <<"number", n>>
JArray(xs) == <<"array", xs>>
JObject(ms) == <<"object", ms>>

DumpItem(item) ==
    JObject(<< <<"id", JNumber(item.id)>>, <<"name", JString(item.name)>> >>)
DumpNames(list) == JArray([i \in 1..Len(list) |-> JString(list[i])])
DumpItems(list) == JArray([i \in 1..Len(list) |-> DumpItem(list[i])])

json_dump(d) ==
    JObject(<< <<"active", JObject(<< <<"Groceries", DumpNames(d.active.Groceries)>>,
                                      <<"Alcohol", DumpNames(d.active.Alcohol)>> >>)>>,
               <<"Groceries", DumpItems(d.Groceries)>>,
               <<"Alcohol", DumpItems(d.Alcohol)>> >>)

\* json.load: objects become dicts, arrays lists, strings and numbers
\* themselves.
RECURSIVE json_load(_)
json_load(j) ==
    CASE j[1] = "object" ->
            LET ms == j[2]
                final(k) == CHOOSE i \in 1..Len(ms) :
                               ms[i][1] = k /\ \A i2 \in (i + 1)..Len(ms) : ms[i2][1] # k
            IN  [k \in {ms[i][1] : i \in 1..Len(ms)} |-> json_load(ms[final(k)][2])]
      [] j[1] = "array" -> [i \in 1..Len(j[2]) |-> json_load(j[2][i])]
      [] j[1] = "string" -> j[2]
      [] j[1] = "number" -> j[2]

\* ----------------------------------------------------------- Meilisearch
\* States the server may be in before the backend's first start.
PreexistingIndexes ==
    { <<>>,
      [u \in {"Groceries"} |-> {[id |-> 5823, name |-> Milk]}],
      [u \in {"Stale"} |-> {}] }

\* for index in meili.get_indexes()["results"]: index.delete(), then the
\* two create_index calls.
ResetIndexes == [u \in {"Groceries", "Alcohol"} |-> {}]

\* index.update_documents([doc]) on an index with primary key "id".
UpdateDocuments(docs, doc) == {d \in docs : d.id # doc.id} \cup {doc}

\* delete_document that leaves the index as it is.
DeleteDocument_Noop(docs, id) == docs

\* index.delete_document(id)
DeleteDocument(docs, id) == {d \in docs : d.id # id}

\* Names a search of the category's index can return: those of its documents.
SearchableNames(category) == {d.name : d \in meili[category]}

\* ------------------------------------------------------------- requests
Request(op, category, item_name, ok) ==
    [op |-> op, category |-> category, item_name |-> item_name, ok |-> ok]

NoRequest == Request("none", "Groceries", <<>>, TRUE)

\* The name an add of item_name inserts (main.py:122-123).
CanonicalName(raw) == capitalize(unquote(raw))

\* The number of adds that returned so far.
Adds ==
    IF DOMAIN addedAt = {} THEN 0
    ELSE CHOOSE n \in 1..MaxRequests :
            /\ \E p \in DOMAIN addedAt : addedAt[p] = n
            /\ \A p \in DOMAIN addedAt : addedAt[p] <= n

\* Bookkeeping of the request history, common to all handlers.
Record(r) ==
    /\ last' = r
    /\ prevAdd' = IF last.op = "add" /\ last.ok
                  THEN <<[category |-> last.category, item_name |-> last.item_name]>>
                  ELSE <<>>
    /\ nreq' = nreq + 1
    /\ allOk' = (allOk /\ r.ok)
    /\ addedAt' = IF ~(allOk /\ r.ok) THEN <<>>
                  ELSE IF r.op = "add"
                  THEN (<<r.category, CanonicalName(r.item_name)>> :> (Adds + 1)) @@ addedAt
                  ELSE addedAt

NoResponse == [status |-> "none", active |-> EmptyDb.active, hits |-> {}]
Returned(active) == [status |-> "ok", active |-> active, hits |-> {}]
Raised == [status |-> "error", active |-> EmptyDb.active, hits |-> {}]
Hits(names) == [status |-> "ok", active |-> EmptyDb.active, hits |-> names]

Init ==
    /\ db = EmptyDb
    /\ disk = <<>>
    /\ meili \in PreexistingIndexes
    /\ up = FALSE
    /\ last = NoRequest
    /\ prevAdd = <<>>
    /\ response = NoResponse
    /\ nreq = 0
    /\ allOk = TRUE
    /\ deleted = {}
    /\ addedAt = <<>>

\* The calls of init_db that can raise (the server is unreachable, the
\* file cannot be written), and "none" when all of them return.
InitCalls == {"get_indexes", "create_Groceries", "create_Alcohol", "open", "none"}

\* The indexes when init_db stops at the call that raises.
IndexesWhenRaised(raises) ==
    CASE raises = "get_indexes" -> meili
      [] raises = "create_Groceries" -> <<>>
      [] raises = "create_Alcohol" -> [u \in {"Groceries"} |-> {}]
      [] OTHER -> ResetIndexes

\* init_db with the file written before the indexes are reset.
init_db_WriteFirst(raises) ==
    /\ disk' = IF raises = "open" THEN disk ELSE <<json_dump(EmptyDb)>>
    /\ meili' = IF raises = "open" THEN meili ELSE IndexesWhenRaised(raises)

\* init_db, main.py:62-70: every index is deleted, the two are created, and
\* the empty Db is written.  An exception ends it at the call that raises.
init_db(raises) ==
    /\ meili' = IndexesWhenRaised(raises)
    /\ disk' = IF raises = "none" THEN <<json_dump(EmptyDb)>> ELSE disk

\* Module body, main.py:73-78: init_db when the snapshot is absent, then load.
\* When init_db raises, the import fails and the process does not come up.
ModuleBody ==
    \E raises \in (IF disk = <<>> THEN InitCalls ELSE {"none"}) :
        /\ IF disk = <<>> THEN init_db(raises) ELSE UNCHANGED <<meili, disk>>
        /\ IF raises = "none"
           THEN db' = json_load(disk'[1]) /\ up' = TRUE
           ELSE UNCHANGED <<db, up>>

\* First start of the process.
Start ==
    /\ ~up
    /\ ModuleBody
    /\ UNCHANGED <<last, prevAdd, response, nreq, allOk, deleted, addedAt>>

\* The process ends and is started again: memory is lost, the module body
\* runs against the file and the indexes as they were left.
Restart ==
    /\ up
    /\ ModuleBody
    /\ UNCHANGED <<last, prevAdd, response, nreq, allOk, deleted, addedAt>>

\* Lines 103-104 with the last element popped instead of the named one.
ActiveAfterDelete_PopLast(active, category, name) ==
    IF In(name, active[category])
    THEN [active EXCEPT ![category] = SubSeq(@, 1, Len(@) - 1)]
    ELSE active

\* Lines 103-104 with the name capitalized before it is looked up.
ActiveAfterDelete_Canonical(active, category, name) ==
    IF In(capitalize(name), active[category])
    THEN [active EXCEPT ![category] = ListRemove(@, capitalize(name))]
    ELSE active

\* Lines 103-104 with the name removed from the active list of every
\* category.
ActiveAfterDelete_AllCategories(active, category, name) ==
    [c \in DOMAIN active |->
        IF In(name, active[c]) THEN ListRemove(active[c], name) ELSE active[c]]

\* The active list after lines 103-104.
ActiveAfterDelete(active, category, name) ==
    IF In(name, active[category])
    THEN [active EXCEPT ![category] = ListRemove(@, name)]
    ELSE active

\* Lines 100-106 without the call of save().
delete_item_NoSave(category, raw) ==
    LET item_name == unquote(raw)
        active == ActiveAfterDelete(db.active, category, item_name)
    IN  /\ up /\ nreq < MaxRequests
        /\ db' = [db EXCEPT !.active = active]
        /\ response' = Returned(db'.active)
        /\ Record(Request("delete", category, raw, TRUE))
        /\ UNCHANGED <<disk, meili, up, deleted>>

\* Lines 100-106 working on the Db as read back from the file.
delete_item_Reload(category, raw) ==
    LET item_name == unquote(raw)
        db0 == json_load(disk[1])
        active == ActiveAfterDelete(db0.active, category, item_name)
    IN  /\ up /\ nreq < MaxRequests
        /\ db' = [db0 EXCEPT !.active = active]
        /\ disk' = <<json_dump(db')>>
        /\ response' = Returned(db'.active)
        /\ Record(Request("delete", category, raw, TRUE))
        /\ UNCHANGED <<meili, up, deleted>>

\* DELETE /api/{category}/{item_name}, main.py:100-106.
delete_item(category, raw) ==
    LET item_name == unquote(raw)
        active == ActiveAfterDelete(db.active, category, item_name)
    IN  /\ up /\ nreq < MaxRequests
        /\ db' = [db EXCEPT !.active = active]
        /\ disk' = <<json_dump(db')>>
        /\ response' = Returned(db'.active)
        /\ Record(Request("delete", category, raw, TRUE))
        /\ UNCHANGED <<meili, up, deleted>>

\* Lines 112-115 comparing the entry id, not its name, with item_name:
\* no entry matches.
CatalogAfterDelete_CompareId(list, name) == list

\* Lines 112-115 with the name capitalized before it is compared.
CatalogAfterDelete_Canonical(list, name) ==
    IF \E i \in 1..Len(list) : list[i].name = capitalize(name)
    THEN LET i == CHOOSE j \in 1..Len(list) : list[j].name = capitalize(name)
         IN  SubSeq(list, 1, i - 1) \o SubSeq(list, i + 1, Len(list))
    ELSE list

\* The catalog after the loop of lines 112-115.
CatalogAfterDelete(list, name) ==
    IF \E i \in 1..Len(list) : list[i].name = name
    THEN LET i == CHOOSE j \in 1..Len(list) :
                      list[j].name = name /\ \A k \in 1..(j - 1) : list[k].name # name
         IN  SubSeq(list, 1, i - 1) \o SubSeq(list, i + 1, Len(list))
    ELSE list

\* Lines 109-117 with delete_document called before the loop of lines
\* 112-115.
delete_meili_item_IndexFirst(category, raw, indexOk) ==
    LET item_name == unquote(raw)
        catalog == CatalogAfterDelete(db[category], item_name)
        db1 == [db EXCEPT ![category] = catalog]
    IN  /\ up /\ nreq < MaxRequests
        /\ IF indexOk
           THEN /\ meili' = [meili EXCEPT ![category] =
                                 DeleteDocument(@, get_id_from_name(item_name))]
                /\ db' = [db1 EXCEPT !.active =
                              ActiveAfterDelete(db1.active, category, item_name)]
                /\ disk' = <<json_dump(db')>>
                /\ response' = Returned(db'.active)
           ELSE /\ response' = Raised
                /\ UNCHANGED <<db, meili, disk>>
        /\ Record(Request("delete_meili", category, raw, indexOk))
        /\ deleted' = IF indexOk THEN deleted \cup {<<category, item_name>>} ELSE deleted
        /\ UNCHANGED up

\* DELETE /api/meili/{category}/{item_name}, main.py:109-117.  indexOk is
\* whether the delete_document call returns instead of raising.
delete_meili_item(category, raw, indexOk) ==
    LET item_name == unquote(raw)
        catalog == CatalogAfterDelete(db[category], item_name)
        db1 == [db EXCEPT ![category] = catalog]
    IN  /\ up /\ nreq < MaxRequests
        /\ IF indexOk
           THEN /\ meili' = [meili EXCEPT ![category] =
                                 DeleteDocument(@, get_id_from_name(item_name))]
                /\ db' = [db1 EXCEPT !.active =
                              ActiveAfterDelete(db1.active, category, item_name)]
                /\ disk' = <<json_dump(db')>>
                /\ response' = Returned(db'.active)
           ELSE /\ db' = db1
                /\ response' = Raised
                /\ UNCHANGED <<meili, disk>>
        /\ Record(Request("delete_meili", category, raw, indexOk))
        /\ deleted' = IF indexOk THEN deleted \cup {<<category, item_name>>} ELSE deleted
        /\ UNCHANGED up

\* Lines 124-126 with append in place of insert(0, ...).
ActiveAfterAdd_Append(active, category, name) ==
    [active EXCEPT ![category] =
        (IF In(name, @) THEN ListRemove(@, name) ELSE @) \o <<name>>]

\* Lines 124-126 without the removal of the old occurrence.
ActiveAfterAdd_NoRemove(active, category, name) ==
    [active EXCEPT ![category] = InsertFront(@, name)]

\* The active list after lines 124-126.
ActiveAfterAdd(active, category, name) ==
    [active EXCEPT ![category] =
        InsertFront(IF In(name, @) THEN ListRemove(@, name) ELSE @, name)]

\* Lines 127-134 with append in place of insert(0, ...).
CatalogAfterAdd_Append(list, name) ==
    Filter(list, name) \o <<[id |-> get_id_from_name(name), name |-> name]>>

\* The catalog after lines 127-134.
CatalogAfterAdd(list, name) ==
    InsertFront(Filter(list, name), [id |-> get_id_from_name(name), name |-> name])

\* Lines 120-144 with save() called before update_documents.
add_item_SaveFirst(category, raw, indexOk) ==
    LET item_name == CanonicalName(raw)
        db1 == [db EXCEPT !.active = ActiveAfterAdd(@, category, item_name),
                          ![category] = CatalogAfterAdd(@, item_name)]
    IN  /\ up /\ nreq < MaxRequests
        /\ db' = db1
        /\ disk' = <<json_dump(db')>>
        /\ IF indexOk
           THEN /\ meili' = [meili EXCEPT ![category] =
                                 UpdateDocuments(@, [id |-> get_id_from_name(item_name),
                                                     name |-> item_name])]
                /\ response' = Returned(db'.active)
           ELSE /\ response' = Raised
                /\ UNCHANGED meili
        /\ Record(Request("add", category, raw, indexOk))
        /\ deleted' = deleted \ {<<category, item_name>>}
        /\ UNCHANGED up

\* POST /api/{category}/{item_name}, main.py:120-144.  indexOk is whether
\* the update_documents call returns instead of raising.
add_item(category, raw, indexOk) ==
    LET item_name == CanonicalName(raw)
        db1 == [db EXCEPT !.active = ActiveAfterAdd(@, category, item_name),
                          ![category] = CatalogAfterAdd(@, item_name)]
    IN  /\ up /\ nreq < MaxRequests
        /\ db' = db1
        /\ IF indexOk
           THEN /\ meili' = [meili EXCEPT ![category] =
                                 UpdateDocuments(@, [id |-> get_id_from_name(item_name),
                                                     name |-> item_name])]
                /\ disk' = <<json_dump(db')>>
                /\ response' = Returned(db'.active)
           ELSE /\ response' = Raised
                /\ UNCHANGED <<meili, disk>>
        /\ Record(Request("add", category, raw, indexOk))
        /\ deleted' = deleted \ {<<category, item_name>>}
        /\ UNCHANGED up

\* GET /api/search/{category}/{search_input}, main.py:147-150.  Which
\* documents match, and their ranking, is the engine's business: any set of
\* at most 8 names of documents of the index may come back.
get_search(category, search_input) ==
    /\ up /\ nreq < MaxRequests
    /\ \E names \in SUBSET SearchableNames(category) :
          /\ Cardinality(names) <= 8
          /\ response' = Hits(names)
    /\ Record(Request("search", category, search_input, TRUE))
    /\ UNCHANGED <<db, disk, meili, up, deleted>>

Next ==
    \/ Start
    \/ Restart
    \/ \E category \in Categories, raw \in RawNames : delete_item(category, raw)
    \/ \E category \in Categories, raw \in RawNames, indexOk \in BOOLEAN :
          delete_meili_item(category, raw, indexOk)
    \/ \E category \in Categories, raw \in RawNames, indexOk \in BOOLEAN :
          add_item(category, raw, indexOk)
    \/ \E category \in Categories, q \in Queries : get_search(category, q)

Spec == Init /\ [][Next]_vars

\* ------------------------------------------------------------ properties
OtherCategory(c) == IF c = "Groceries" THEN "Alcohol" ELSE "Groceries"

\* The step serves a request.
Served == nreq' = nreq + 1

\* The request before `last` was an add, in the category of `last`, that
\* returned.
AfterAdd == prevAdd # <<>> /\ prevAdd[1].category = last.category

HasEntry(list, name) ==
    \E i \in 1..Len(list) : list[i] = [id |-> get_id_from_name(name), name |-> name]
HasEntryNamed(list, name) == \E i \in 1..Len(list) : list[i].name = name

\* C1: when a POST /api/c/n that returned is followed at once by the same
\* POST, which returns too, active[c] then holds the canonical name of n
\* exactly once, at position 0, and is as long as after the first POST.
C1_IdempotentAdd ==
    [][(Served /\ last.op = "add" /\ last.ok /\ last' = last) =>
          LET c == last.category
              x == CanonicalName(last.item_name)
          IN  /\ Count(x, db'.active[c]) = 1
              /\ db'.active[c][1] = x
              /\ Len(db'.active[c]) = Len(db.active[c])]_vars

C1_Witness ==
    /\ up /\ last.op = "add" /\ last.ok
    /\ prevAdd = <<[category |-> last.category, item_name |-> last.item_name]>>
    /\ last.item_name = milk
    /\ db.active[last.category] = <<Milk>>

\* What C2 promises of the state after POST /api/c/n, DELETE /api/c/d,
\* where x is the canonical name of n.
C2_Outcome(c, x) ==
    /\ ~In(x, db.active[c])
    /\ nreq = 2 => db.active[c] = <<>>
    /\ HasEntry(db[c], x)

\* C2 as claimed: after a POST /api/c/n that returned and then
\* DELETE /api/c/n with the same request name n, active[c] is without the
\* canonical name of n and catalog[c] still has its entry.
C2_AsClaimed ==
    (up /\ last.op = "delete" /\ AfterAdd /\ prevAdd[1].item_name = last.item_name)
        => C2_Outcome(last.category, CanonicalName(last.item_name))

\* C2 (amended): after a POST /api/c/n that returned and then a
\* DELETE /api/c/d whose percent-decoded name d is the canonical name of n,
\* active[c] is without that name (empty if it was empty before) and
\* catalog[c] still has its entry.
C2_AddThenDelete ==
    (up /\ last.op = "delete" /\ AfterAdd
        /\ unquote(last.item_name) = CanonicalName(prevAdd[1].item_name))
        => C2_Outcome(last.category, CanonicalName(prevAdd[1].item_name))

C2_Witness ==
    /\ up /\ last.op = "delete" /\ AfterAdd /\ nreq = 2
    /\ prevAdd[1].item_name = milk
    /\ unquote(last.item_name) = Milk
    /\ db.active[last.category] = <<>>
    /\ db[last.category] # <<>>

\* What C3 promises of the state after POST /api/c/n, DELETE /api/meili/c/d,
\* where x is the canonical name of n.
C3_Outcome(c, x) ==
    /\ ~In(x, db.active[c])
    /\ ~HasEntryNamed(db[c], x)
    /\ \A d \in meili[c] : d.name # x
    /\ x \notin SearchableNames(c)

C4_CatalogUniqueById ==
    up => \A c \in Categories : \A i, j \in 1..Len(db[c]) :
              db[c][i].id = db[c][j].id => i = j

\* str.strip() on the characters used here: surrounding spaces go.
RECURSIVE strip(_)
strip(s) ==
    IF s = <<>> THEN <<>>
    ELSE IF s[1] = " " THEN strip(Tail(s))
    ELSE IF s[Len(s)] = " " THEN strip(SubSeq(s, 1, Len(s) - 1))
    ELSE s

\* Canonicalization as C5 words it: trim, then capitalize.
TrimmedName(raw) == capitalize(strip(unquote(raw)))

\* C5: after two POSTs in a row to category c that both returned, of names
\* with the same trimmed and capitalized form x, catalog[c] has exactly one
\* entry with the id of x and active[c] holds x exactly once.
C5_CatalogDedup ==
    (up /\ last.op = "add" /\ last.ok /\ AfterAdd
        /\ TrimmedName(prevAdd[1].item_name) = TrimmedName(last.item_name))
        => LET c == last.category
               x == TrimmedName(last.item_name)
           IN  /\ Cardinality({i \in 1..Len(db[c]) :
                                   db[c][i].id = get_id_from_name(x)}) = 1
               /\ Count(x, db.active[c]) = 1

\* C6: no name occurs twice in an active list, whatever requests were
\* served and whether they returned or raised.
C6_ActiveNoDuplicates ==
    up => \A c \in Categories : \A i, j \in 1..Len(db.active[c]) :
              db.active[c][i] = db.active[c][j] => i = j

C6_Witness ==
    /\ up /\ ~allOk /\ last.op = "add" /\ AfterAdd
    /\ CanonicalName(prevAdd[1].item_name) = CanonicalName(last.item_name)
    /\ Len(db.active[last.category]) = 2

\* C7: once an add, delete or delete-with-reindex has returned, the file
\* holds the dump of the whole in-memory Db, and loading it gives that Db.
C7_SnapshotFollowsMemory ==
    (up /\ last.op \in {"add", "delete", "delete_meili"} /\ last.ok)
        => /\ disk = <<json_dump(db)>>
           /\ json_load(disk[1]) = db

C7_Witness ==
    /\ up /\ last.op = "delete" /\ ~allOk
    /\ db.active.Groceries # <<>> /\ db.Alcohol # <<>>
    /\ json_load(disk[1]) = db

\* C8: a DELETE /api/c/n changes nothing but active[c], from which the
\* decoded name, and no other, is gone: both catalogs, the other active list
\* and the indexes are as before.
C8_DeleteFrame ==
    [][(Served /\ last'.op = "delete") =>
          LET c == last'.category
              d == unquote(last'.item_name)
          IN  /\ db'.active[c] = SelectSeq(db.active[c], LAMBDA y : y # d)
              /\ db'.active[OtherCategory(c)] = db.active[OtherCategory(c)]
              /\ db'.Groceries = db.Groceries
              /\ db'.Alcohol = db.Alcohol
              /\ meili' = meili]_vars

C8_Witness ==
    /\ up /\ last.op = "delete" /\ AfterAdd
    /\ unquote(last.item_name) = Mtue
    /\ db.active[last.category] = <<>>
    /\ HasEntry(db[last.category], Mtue)
    /\ meili[last.category] # {}

\* C9: from the return of a delete-with-reindex of name x in category c
\* until the next add of x to c, catalog[c] has no entry named x, the index
\* of c has no document named x, and no search of c returns x.
C9_DeleteThenSearch ==
    up => \A p \in deleted :
              /\ ~HasEntryNamed(db[p[1]], p[2])
              /\ p[2] \notin SearchableNames(p[1])
              /\ (last.op = "search" /\ last.category = p[1])
                     => p[2] \notin response.hits

C9_Witness ==
    /\ up /\ last.op = "delete_meili" /\ last.ok /\ AfterAdd
    /\ prevAdd[1].item_name = Mtue
    /\ <<last.category, Mtue>> \in deleted
    /\ last.item_name = Mtue

Entries(list) == {list[i] : i \in 1..Len(list)}

\* C11: as long as every request returned, the documents of the index of c
\* are exactly the entries of catalog[c].
C11_IndexMirrorsCatalog ==
    (up /\ allOk) => \A c \in Categories : meili[c] = Entries(db[c])

\* A request that returns and changes neither the Db nor any index.
NoOp == response' = Returned(db.active) /\ db' = db /\ meili' = meili

Absent(c, d) ==
    /\ ~In(d, db.active[c])
    /\ ~HasEntryNamed(db[c], d)
    /\ \A doc \in meili[c] : doc.id # get_id_from_name(d)

C13_IndexFailure ==
    [][(Served /\ ~last'.ok) =>
          LET c == last'.category
              x == CanonicalName(last'.item_name)
              d == unquote(last'.item_name)
          IN  /\ last'.op \in {"add", "delete_meili"}
              /\ response' = Raised
              /\ disk' = disk
              /\ meili' = meili
              /\ last'.op = "add" =>
                    /\ db'.active[c] = <<x>> \o SelectSeq(db.active[c], LAMBDA y : y # x)
                    /\ db'[c] = <<[id |-> get_id_from_name(x), name |-> x]>>
                                  \o SelectSeq(db[c], LAMBDA e : e.name # x)
              /\ last'.op = "delete_meili" =>
                    /\ ~HasEntryNamed(db'[c], d)
                    /\ Len(db'[c]) >= Len(db[c]) - 1
                    /\ db'.active = db.active]_vars

\* A delete-with-reindex of the name just added has failed: the entry is
\* gone from the catalog in memory, the name is still active, and the file
\* and the index still hold the entry.
C13_Witness ==
    /\ up /\ last.op = "delete_meili" /\ ~last.ok /\ AfterAdd
    /\ unquote(last.item_name) = CanonicalName(prevAdd[1].item_name)
    /\ response = Raised
    /\ In(unquote(last.item_name), db.active[last.category])
    /\ ~HasEntryNamed(db[last.category], unquote(last.item_name))
    /\ HasEntryNamed(json_load(disk[1])[last.category], unquote(last.item_name))
    /\ \E doc \in meili[last.category] : doc.name = unquote(last.item_name)

\* A delete-with-reindex whose delete_document call raised: the request
\* stopped at the index deletion.
StoppedAtIndexDeletion == Served /\ last'.op = "delete_meili" /\ ~last'.ok

\* C14 as claimed: the index deletion of DELETE /api/meili/c/n comes before
\* any mutation of the catalog or of the active list and before the
\* snapshot is written, so a request that stopped at the index deletion has
\* changed neither the Db nor the file.
C14_AsClaimed ==
    [][StoppedAtIndexDeletion => (db' = db /\ disk' = disk)]_vars

\* C14 (amended): the index deletion of DELETE /api/meili/c/n comes after
\* the removal of the entry named n from catalog[c] and before the mutation
\* of the active list and the writing of the snapshot: a request that
\* stopped at the index deletion has removed the entry from catalog[c] and
\* has changed nothing else of the Db, nor the file.
C14_StepOrder ==
    [][StoppedAtIndexDeletion =>
          LET c == last'.category
              d == unquote(last'.item_name)
          IN  /\ db'[c] = SelectSeq(db[c], LAMBDA e : e.name # d)
              /\ db' = [db EXCEPT ![c] = db'[c]]
              /\ disk' = disk]_vars

\* POST PctMilk then a DELETE /api/meili of it that stopped at the index
\* deletion: the catalog in memory is empty, and the active list, the file
\* and the index are as the add left them.
C14_Witness ==
    LET c == last.category
        e == [id |-> get_id_from_name(Milk), name |-> Milk]
    IN  /\ up /\ nreq = 2 /\ last.op = "delete_meili" /\ ~last.ok /\ AfterAdd
        /\ prevAdd[1].item_name = PctMilk /\ last.item_name = PctMilk
        /\ db[c] = <<>>
        /\ db.active[c] = <<Milk>>
        /\ disk = <<json_dump([db EXCEPT ![c] = <<e>>])>>
        /\ meili[c] = {e}

\* The rank of the latest add of name to category c that returned; 0 when
\* there was none.
LatestAdd(c, name) ==
    IF <<c, name>> \in DOMAIN addedAt THEN addedAt[<<c, name>>] ELSE 0

\* The names of a list were added in the order of the list, latest first.
MostRecentFirst(c, names) ==
    /\ \A i \in 1..Len(names) : LatestAdd(c, names[i]) > 0
    /\ \A i, j \in 1..Len(names) :
          i < j => LatestAdd(c, names[i]) > LatestAdd(c, names[j])

NamesOf(list) == [i \in 1..Len(list) |-> list[i].name]

\* As long as every request returned, the names of active[c] and of the
\* entries of catalog[c] are in the order of their latest add, latest first.
OrderedByLatestAdd ==
    (up /\ allOk) => \A c \in Categories :
                         /\ MostRecentFirst(c, db.active[c])
                         /\ MostRecentFirst(c, NamesOf(db[c]))

\* An add that returns puts the name at position 0 of active[c] and its
\* entry at position 0 of catalog[c], the other elements following in the
\* order they had; a delete that returns leaves the elements that remain in
\* the order they had.
KeepsOrder ==
    (Served /\ last'.ok) =>
        LET c == last'.category
            x == CanonicalName(last'.item_name)
            d == unquote(last'.item_name)
        IN  /\ last'.op = "add" =>
                  /\ db'.active[c] = <<x>> \o SelectSeq(db.active[c], LAMBDA y : y # x)
                  /\ NamesOf(db'[c]) =
                        <<x>> \o SelectSeq(NamesOf(db[c]), LAMBDA y : y # x)
            /\ last'.op = "delete" =>
                  /\ db'.active[c] = SelectSeq(db.active[c], LAMBDA y : y # d)
                  /\ db'[c] = db[c]
            /\ last'.op = "delete_meili" =>
                  /\ db'.active[c] = SelectSeq(db.active[c], LAMBDA y : y # d)
                  /\ db'[c] = SelectSeq(db[c], LAMBDA e : e.name # d)

IndexesResetBeforeSnapshot ==
    disk # <<>> => DOMAIN meili = {"Groceries", "Alcohol"}

\* A start of the process.  Without a snapshot, either the snapshot is
\* written, and then the server has the two indexes, empty, and all four
\* lists of the Db are empty, or init_db raised and the process is not up.
\* With a snapshot, the file and the indexes are left as they are and the Db
\* is the content of the file.
StartupStep ==
    (nreq' = nreq) =>
        IF disk = <<>>
        THEN IF disk' # <<>>
             THEN /\ meili' = [u \in {"Groceries", "Alcohol"} |-> {}]
                  /\ up'
                  /\ db'.active.Groceries = <<>> /\ db'.active.Alcohol = <<>>
                  /\ db'.Groceries = <<>> /\ db'.Alcohol = <<>>
             ELSE ~up'
        ELSE /\ meili' = meili
             /\ disk' = disk
             /\ up'
             /\ json_dump(db') = disk[1]

\* C17: without a snapshot at the start of the process, the indexes are
\* deleted and the two empty indexes created before the first snapshot is
\* written, and the loaded Db has four empty lists; with a snapshot, the
\* indexes are not reset and the Db in memory is the snapshot.
C17_Startup == []IndexesResetBeforeSnapshot /\ [][StartupStep]_vars

\* The process was started again after an add whose index call raised: the
\* Db is the snapshot again, without the name, and the index is as it was.
C17_Witness ==
    /\ up /\ nreq = 2 /\ last.op = "add" /\ ~last.ok /\ AfterAdd
    /\ prevAdd[1].item_name = Mtue /\ last.item_name = SpaceMilk
    /\ db.active[last.category] = <<Mtue>>
    /\ json_dump(db) = disk[1]
    /\ meili[last.category] = {[id |-> get_id_from_name(Mtue), name |-> Mtue]}
    /\ meili[OtherCategory(last.category)] = {}

\* Canonicalization of a stored name as the spec defines it: trim, then
\* capitalize.
Canonicalized(name) == capitalize(strip(name))

\* The entries of both catalogs and the documents of both indexes.
StoredEntries ==
    UNION {Entries(db[c]) \cup meili[c] : c \in Categories}

\* C18: in every state reached from the empty Db, every catalog entry and
\* every index document e has e.id = derive(e.name), and canonicalizing
\* e.name yields e.name.
C18_StoredEntriesCanonical ==
    up => \A e \in StoredEntries :
              /\ e.id = get_id_from_name(e.name)
              /\ Canonicalized(e.name) = e.name

\* The part of C18 that the code keeps: the id is derived from the stored
\* name, and the stored name is its own capitalization.
C18_KeyedAndCapitalized ==
    up => \A e \in StoredEntries :
              /\ e.id = get_id_from_name(e.name)
              /\ capitalize(e.name) = e.name

\* C19: an add, a delete or a delete-with-reindex on category c, whether it
\* returns or raises, leaves the active list, the catalog and the index
\* documents of the other category as they were.
C19_CategoryIsolation ==
    [][(Served /\ last'.op \in {"add", "delete", "delete_meili"}) =>
          LET o == OtherCategory(last'.category)
          IN  /\ db'.active[o] = db.active[o]
              /\ db'[o] = db[o]
              /\ meili'[o] = meili[o]]_vars

\* Mtue was added to both categories and then deleted-with-reindex from one:
\* it is gone from that category and the other still has it, in the active
\* list, the catalog and the index.
C19_Witness ==
    LET c == last.category
        o == OtherCategory(last.category)
        e == [id |-> get_id_from_name(Mtue), name |-> Mtue]
    IN  /\ up /\ nreq = 3 /\ last.op = "delete_meili" /\ last.ok /\ AfterAdd
        /\ unquote(last.item_name) = Mtue
        /\ db.active[c] = <<>> /\ db[c] = <<>> /\ meili[c] = {}
        /\ db.active[o] = <<Mtue>> /\ db[o] = <<e>> /\ meili[o] = {e}

\* The name a request works on: the canonical name for an add, the decoded
\* name for a delete.
NameOf(r) == IF r.op = "add" THEN CanonicalName(r.item_name) ELSE unquote(r.item_name)

\* The most recent request is an add or a delete-with-reindex whose index
\* call raised.
LastFailed == up /\ last.op \in {"add", "delete_meili"} /\ ~last.ok

\* The Db d holds the changes the failed request `last` made in memory: the
\* name in active[c] and its entry in catalog[c] for an add, no entry of the
\* name in catalog[c] for a delete-with-reindex.
HoldsFailedChanges(d) ==
    IF last.op = "add"
    THEN In(NameOf(last), d.active[last.category])
            /\ HasEntry(d[last.category], NameOf(last))
    ELSE ~HasEntryNamed(d[last.category], NameOf(last))

\* The documents of the failed request's name in the index of its category.
DocsOfFailed(m) == {doc \in m[last.category] : doc.name = NameOf(last)}

\* The step serves a request that reaches save().
ReachesSave == Served /\ last'.ok /\ last'.op \in {"add", "delete", "delete_meili"}

\* The changes of the failed request `last` are not in the snapshot.
NotYetDurable == LastFailed /\ ~HoldsFailedChanges(json_load(disk[1]))

OnAnotherItem ==
    \/ last'.category # last.category
    \/ get_id_from_name(NameOf(last')) # get_id_from_name(NameOf(last))

====
